---- MODULE Spec2Model ----
(***************************************************************************)
(* A model of rill's type-handler registry (rill/engine/types.py) and of   *)
(* the text components (rill/components/text.py).                          *)
(*                                                                         *)
(* Python objects are named by strings: a class by its name ("int",        *)
(* "IntType"), an instance of class X by X followed by "()".  Python's     *)
(* None is the string "None".                                              *)
(***************************************************************************)
EXTENDS Integers, Sequences, FiniteSets, TLC

VARIABLES
    phase,            \* how far the import of types.py has run
    _type_handlers,   \* types.py:18, the LIFO list of handler classes
    _type_lookup,     \* SchematicsTypeHandler._type_lookup
    _subtype_lookup,  \* SchematicsTypeHandler._subtype_lookup
    primitive_type,   \* the primitive_type attribute of each schematics class
    ref_type_lookup,  \* the same tables, as a claim_type that stores nothing
    ref_subtype_lookup,   \* leaves them
    ref_primitive_type,
    explicit,         \* the classes registered by a register_type call of a caller
    ret,              \* the last call and its outcome
    ref_ret,          \* the outcome of the same call on the ref_ tables
    sdata,            \* the argument of the last serialize/deserialize/round trip
    sret,             \* its result
    ncalls,           \* calls made so far
    comp,             \* text.py: the component that runs
    pc,               \* where its logic stands, or the error that ended it
    stream,           \* per input port, the contents that arrive on it
    pos,              \* per input port, how many packets were taken from it
    owned,            \* the packets the component owns
    loc,              \* the logic's local variables
    outq,             \* per output port, the contents sent, in order
    nsent,            \* per received packet, how often it was sent
    ndropped          \* per received packet, how often it was dropped

tvars == <<phase, _type_handlers, _type_lookup, _subtype_lookup, primitive_type,
           ref_type_lookup, ref_subtype_lookup, ref_primitive_type,
           explicit, ret, ref_ret, sdata, sret, ncalls>>
cvars == <<comp, pc, stream, pos, owned, loc, outq, nsent, ndropped>>
vars == <<tvars, cvars>>

-----------------------------------------------------------------------------
(* Bounds of the model *)

MaxCalls == 3

-----------------------------------------------------------------------------
(* The class universe.  MRO(c) is c.mro(): c first, object last. *)

None == "None"
Absent == "<absent>"

MRO(c) ==
    CASE c = "object"       -> <<"object">>
      [] c = "int"          -> <<"int", "object">>
      [] c = "bool"         -> <<"bool", "int", "object">>
      [] c = "float"        -> <<"float", "object">>
      [] c = "basestring"   -> <<"basestring", "object">>
      [] c = "str"          -> <<"str", "basestring", "object">>
      [] c = "MyStr"        -> <<"MyStr", "str", "basestring", "object">>
      [] c = "Decimal"      -> <<"Decimal", "object">>
      [] c = "date"         -> <<"date", "object">>
      [] c = "datetime"     -> <<"datetime", "date", "object">>
      [] c = "NoneType"     -> <<"NoneType", "object">>
      [] c = "tuple"        -> <<"tuple", "object">>
      [] c = "list"         -> <<"list", "object">>
      [] c = "A"            -> <<"A", "object">>
      [] c = "BaseType"     -> <<"BaseType", "object">>
      [] c = "IntType"      -> <<"IntType", "BaseType", "object">>
      [] c = "BooleanType"  -> <<"BooleanType", "BaseType", "object">>
      [] c = "FloatType"    -> <<"FloatType", "BaseType", "object">>
      [] c = "StringType"   -> <<"StringType", "BaseType", "object">>
      [] c = "DecimalType"  -> <<"DecimalType", "BaseType", "object">>
      [] c = "DateType"     -> <<"DateType", "BaseType", "object">>
      [] c = "DateTimeType" -> <<"DateTimeType", "BaseType", "object">>
      [] c = "CompoundType" -> <<"CompoundType", "BaseType", "object">>
      [] c = "ListType"     -> <<"ListType", "CompoundType", "BaseType", "object">>
      [] c = "ModelType"    -> <<"ModelType", "CompoundType", "BaseType", "object">>
      [] c = "Model"        -> <<"Model", "object">>
      [] c = "MyModel"      -> <<"MyModel", "Model", "object">>

Classes ==
    {"object", "int", "bool", "float", "basestring", "str", "MyStr", "Decimal",
     "date", "datetime", "NoneType", "tuple", "list", "A",
     "BaseType", "IntType", "BooleanType", "FloatType", "StringType",
     "DecimalType", "DateType", "DateTimeType", "CompoundType", "ListType",
     "ModelType", "Model", "MyModel"}

Range(s) == {s[i] : i \in 1..Len(s)}

\* a local variable: Body applied to the value of e, e evaluated once
Bind(e, Body(_)) == CHOOSE y \in {Body(x) : x \in {e}} : TRUE

Inst(c) == c \o "()"
Instances == {Inst(c) : c \in Classes}
TypeOf(o) == CHOOSE c \in Classes : Inst(c) = o

isclass(o) == o \in Classes
\* issubclass raises TypeError when its first argument is no class; callers
\* test isclass first wherever the code does
issubclass(c, d) == d \in Range(MRO(c))
isinstance(o, d) == o \in Instances /\ issubclass(TypeOf(o), d)
Depth(c) == Len(MRO(c))
Depths == {Depth(c) : c \in Classes}

-----------------------------------------------------------------------------
(* SchematicsTypeHandler's class-level tables.  A table S is a record      *)
(* [tl, sl, prim]: tl is _type_lookup (Absent where the dict has no key),  *)
(* sl is _subtype_lookup (a defaultdict(list): the empty list where it has *)
(* no key), prim the primitive_type attribute set on each class.           *)

EmptyTables ==
    [tl   |-> [c \in Classes |-> Absent],
     sl   |-> [d \in Depths |-> <<>>],
     prim |-> [c \in Classes |-> None]]

\* getattr(schematics_type, 'primitive_type', None): a class attribute is
\* found on the class or on the nearest base that sets it
RECURSIVE FirstPrim(_, _)
FirstPrim(prim, mro) ==
    IF mro = <<>> THEN None
    ELSE IF prim[Head(mro)] # None THEN prim[Head(mro)]
    ELSE FirstPrim(prim, Tail(mro))

GetPrim(prim, c) == IF isclass(c) THEN FirstPrim(prim, MRO(c)) ELSE None

Raise(S, e) == [exc |-> e, tl |-> S.tl, sl |-> S.sl, prim |-> S.prim]

\* types.py:355-361, the check of schematics_type
SchematicsTypeCheck(schematics_type) ==
    IF ~isclass(schematics_type)
    THEN "TypeError"      \* isclass is False, so issubclass(non-class, ...) runs and raises
    ELSE IF issubclass(schematics_type, "CompoundType") THEN "ValueError"
    ELSE ""

\* register_type(type, schematics_type, primitive_type, allow_subclasses, overwrite)
register_type(S, type, schematics_type, primitive, allow_subclasses, overwrite) ==
    LET chk  == SchematicsTypeCheck(schematics_type)
        curr == GetPrim(S.prim, schematics_type)
        S1   == IF primitive # None /\ curr = None
                THEN [S EXCEPT !.prim[schematics_type] = primitive]
                ELSE S
    IN  IF chk # "" THEN Raise(S, chk)
        ELSE IF ~isclass(type) THEN Raise(S, "ValueError")
        ELSE IF primitive # None /\ curr # None THEN Raise(S, "ValueError")
        ELSE IF ~overwrite /\ S1.tl[type] # Absent THEN Raise(S1, "ValueError")
        ELSE [exc  |-> "",
              tl   |-> [S1.tl EXCEPT ![type] = schematics_type],
              sl   |-> IF allow_subclasses
                       THEN [S1.sl EXCEPT ![Depth(type)] =
                                Append(@, <<type, schematics_type>>)]
                       ELSE S1.sl,
              prim |-> S1.prim]

\* the entries of _subtype_lookup in the order claim_type visits them:
\* reversed(sorted(keys)), each list front to back
RECURSIVE DeepestFirst(_, _)
DeepestFirst(sl, ds) ==
    IF ds = {} THEN <<>>
    ELSE LET d == CHOOSE x \in ds : \A y \in ds : y <= x
         IN  sl[d] \o DeepestFirst(sl, ds \ {d})

RECURSIVE FirstMatch(_, _)
FirstMatch(typ, entries) ==
    IF entries = <<>> THEN None
    ELSE IF issubclass(typ, Head(entries)[1]) THEN Head(entries)[2]
    ELSE FirstMatch(typ, Tail(entries))

\* claim_type(typ): [val, exc] and the tables it leaves
claim_type(S, typ) ==
    IF ~isclass(typ) THEN [val |-> None] @@ Raise(S, "")
    ELSE IF S.tl[typ] # Absent THEN [val |-> S.tl[typ]] @@ Raise(S, "")
    ELSE LET found == FirstMatch(typ, DeepestFirst(S.sl, Depths))
         IN  IF found = None THEN [val |-> None] @@ Raise(S, "")
             ELSE Bind(register_type(S, typ, found, None, FALSE, FALSE), LAMBDA R :
                     [val |-> IF R.exc = "" THEN found ELSE None] @@ R)

\* the same resolution with line 334 left out: nothing is stored
claim_type_nostore(S, typ) ==
    IF ~isclass(typ) THEN [val |-> None] @@ Raise(S, "")
    ELSE IF S.tl[typ] # Absent THEN [val |-> S.tl[typ]] @@ Raise(S, "")
    ELSE [val |-> FirstMatch(typ, DeepestFirst(S.sl, Depths))] @@ Raise(S, "")

-----------------------------------------------------------------------------
(* Handler classes and get_type_handler *)

HandlerClasses == {"UnspecifiedTypeHandler", "BasicTypeHandler", "SchematicsTypeHandler"}

\* schematics.types.ModelType(model): the wrapper __init__ puts around a Model
WrapModel(m) == "ModelType(" \o m \o ")"

\* SchematicsTypeHandler.is_schematics_obj
is_schematics_obj(obj) ==
    \/ isinstance(obj, "BaseType") \/ isinstance(obj, "Model")
    \/ (isclass(obj) /\ (issubclass(obj, "BaseType") \/ issubclass(obj, "Model")))

\* cls.claim_type_def(type_def)
claim_type_def(cls, type_def) ==
    CASE cls = "UnspecifiedTypeHandler" -> FALSE
      [] cls = "BasicTypeHandler"       -> isclass(type_def)
      [] cls = "SchematicsTypeHandler"  -> is_schematics_obj(type_def)

\* cls.claim_type(typ): TypeHandler.claim_type is `pass`, only
\* SchematicsTypeHandler overrides it
handler_claim_type(cls, S, typ) ==
    IF cls = "SchematicsTypeHandler" THEN claim_type(S, typ)
    ELSE [val |-> None] @@ Raise(S, "")

\* SchematicsTypeHandler.__init__(type_def): the type_def the handler keeps,
\* or the TypeError of line 278
SchematicsInit(S, type_def) ==
    IF isinstance(type_def, "BaseType")
    THEN [type_def |-> type_def] @@ Raise(S, "")
    ELSE IF isinstance(type_def, "Model")
    THEN [type_def |-> WrapModel(type_def)] @@ Raise(S, "")
    ELSE IF isclass(type_def) /\ issubclass(type_def, "BaseType")
    THEN [type_def |-> Inst(type_def)] @@ Raise(S, "")
    ELSE Bind(claim_type(S, type_def), LAMBDA r :
            IF r.val # None
            THEN [type_def |-> IF isclass(r.val) THEN Inst(r.val) ELSE r.val]
                 @@ Raise(r, "")
            ELSE [type_def |-> None] @@ Raise(r, "TypeError"))

\* cls(type_def): constructing a handler
Construct(cls, S, type_def) ==
    CASE cls = "SchematicsTypeHandler" ->
            [hcls |-> cls] @@ SchematicsInit(S, type_def)
      [] cls = "BasicTypeHandler" ->
            [hcls |-> cls, type_def |-> type_def] @@ Raise(S, "")
      [] cls = "UnspecifiedTypeHandler" ->
            \* is_any stays abstract: ABCMeta refuses to instantiate
            [hcls |-> cls, type_def |-> None] @@ Raise(S, "TypeError")

\* the loop of get_type_handler over the handler classes hs, front to back
RECURSIVE get_type_handler_from(_, _, _)
get_type_handler_from(hs, S, type_def) ==
    IF hs = <<>>
    THEN [hcls |-> None, type_def |-> None] @@ Raise(S, "TypeHandlerError")
    ELSE LET cls == Head(hs) IN
         IF claim_type_def(cls, type_def)
         THEN Construct(cls, S, type_def)
         ELSE Bind(handler_claim_type(cls, S, type_def), LAMBDA r :
                  IF r.val # None
                  THEN Construct(cls, r, r.val)
                  ELSE get_type_handler_from(Tail(hs), r, type_def))

\* a get_type_handler that falls back to the any-handler instead of raising
\* (the commented-out lines 93-94)
get_type_handler_fallback(H, S, type_def) ==
    LET r == get_type_handler_from(H, S, type_def)
    IN  IF r.exc = "TypeHandlerError"
        THEN [r EXCEPT !.exc = "", !.hcls = "UnspecifiedTypeHandler"]
        ELSE r

get_type_handler(H, S, type_def) == get_type_handler_from(H, S, type_def)

\* register_handler(cls): _type_handlers.insert(0, cls)
register_handler(H, cls) == <<cls>> \o H

\* _register_builtin_types(): lines 429-453 set primitive_type, lines
\* 455-471 register the builtin types, in this order
BuiltinPrimitives ==
    [c \in Classes |->
        CASE c \in {"StringType", "DecimalType", "DateTimeType", "DateType"} -> "str"
          [] c = "IntType"     -> "int"
          [] c = "FloatType"   -> "float"
          [] c = "BooleanType" -> "bool"
          [] c = "ModelType"   -> "dict"
          [] c = "ListType"    -> "list"
          [] OTHER             -> None]

BuiltinRegistrations ==
    << <<"int", "IntType", FALSE>>, <<"bool", "BooleanType", FALSE>>,
       <<"float", "FloatType", FALSE>>, <<"basestring", "StringType", TRUE>>,
       <<"Decimal", "DecimalType", FALSE>>, <<"datetime", "DateTimeType", FALSE>>,
       <<"date", "DateType", FALSE>>, <<"NoneType", "BaseType", FALSE>> >>

RECURSIVE RegisterAll(_, _)
RegisterAll(S, regs) ==
    IF regs = <<>> THEN S
    ELSE LET r == register_type(S, Head(regs)[1], Head(regs)[2], None,
                                Head(regs)[3], FALSE)
         IN  RegisterAll([tl |-> r.tl, sl |-> r.sl, prim |-> r.prim], Tail(regs))

_register_builtin_types(S) ==
    RegisterAll([S EXCEPT !.prim = BuiltinPrimitives], BuiltinRegistrations)

-----------------------------------------------------------------------------
(* Python values.  A value is a record [t, s, kids]: t names its concrete  *)
(* type, s is its text for a leaf (the key for a dict item), kids are the  *)
(* elements of a list or tuple, the items of a dict, the value of an item. *)

Leaf(t, s) == [t |-> t, s |-> s, kids |-> <<>>]
ListOf(kids) == [t |-> "list", s |-> "", kids |-> kids]
TupleOf(kids) == [t |-> "tuple", s |-> "", kids |-> kids]
Item(k, v) == [t |-> "<item>", s |-> k, kids |-> <<v>>]
DictOf(items) == [t |-> "dict", s |-> "", kids |-> items]
NoneValue == Leaf("NoneType", "None")

IsMapping(v) == v.t = "dict"
IsListOrTuple(v) == v.t \in {"list", "tuple"}
IsLeaf(v) == ~IsMapping(v) /\ ~IsListOrTuple(v)
HasKey(d, k) == \E i \in 1..Len(d.kids) : d.kids[i].s = k
Get(d, k) == LET i == CHOOSE j \in 1..Len(d.kids) : d.kids[j].s = k
             IN  d.kids[i].kids[1]

\* types.py:22-31, the keys of TYPE_MAP
TYPE_MAP_KEYS == {"str", "bool", "int", "float", "complex", "dict", "list", "tuple"}

\* rill.utils.importable_class_name and locate_class: a class to its dotted
\* name and back
importable_class_name(c) == c
locate_class(name) == name

\* {'__type__': location, 'value': value}, types.py:403
Envelope(location, value) ==
    DictOf(<<Item("__type__", Leaf("str", location)), Item("value", value)>>)

Digits == {"0", "1"}
Numerals == {"0", "1", "1.5"}
Dates == {"2020-01-01"}

Ok(v) == [exc |-> "", val |-> v]
Fail(e) == [exc |-> e, val |-> NoneValue]

\* type_def.to_native(value) of the schematics library, for an instance of
\* the schematics class st
LibToNative(st, v) ==
    CASE st = "BaseType" -> Ok(v)
      [] st = "IntType" ->
            IF v.t = "int" THEN Ok(v)
            ELSE IF v.t = "bool" THEN Ok(Leaf("int", IF v.s = "True" THEN "1" ELSE "0"))
            ELSE IF v.t \in {"str", "MyStr"} /\ v.s \in Digits THEN Ok(Leaf("int", v.s))
            ELSE Fail("ConversionError")
      [] st = "BooleanType" ->
            IF v.t = "bool" THEN Ok(v)
            ELSE IF v.t = "int" /\ v.s \in Digits
                 THEN Ok(Leaf("bool", IF v.s = "1" THEN "True" ELSE "False"))
            ELSE IF v.t = "str" /\ v.s \in {"True", "False"} THEN Ok(Leaf("bool", v.s))
            ELSE Fail("ConversionError")
      [] st = "FloatType" ->
            IF v.t = "float" THEN Ok(v)
            ELSE IF v.t = "int" THEN Ok(Leaf("float", v.s \o ".0"))
            ELSE Fail("ConversionError")
      [] st = "StringType" ->
            IF v.t \in {"str", "MyStr"} THEN Ok(v)
            ELSE IF v.t = "int" THEN Ok(Leaf("str", v.s))
            ELSE Fail("ConversionError")
      [] st = "DecimalType" ->
            IF v.t = "Decimal" THEN Ok(v)
            ELSE IF v.t \in {"str", "int"} /\ v.s \in Numerals THEN Ok(Leaf("Decimal", v.s))
            ELSE Fail("ConversionError")
      [] st \in {"DateType", "DateTimeType"} ->
            LET nt == IF st = "DateType" THEN "date" ELSE "datetime" IN
            IF v.t = nt THEN Ok(v)
            ELSE IF v.t = "str" /\ v.s \in Dates THEN Ok(Leaf(nt, v.s))
            ELSE Fail("ConversionError")
      [] OTHER -> Fail("AttributeError")

\* type_def.to_primitive(value) of the schematics library
LibToPrimitive(st, v) ==
    CASE st \in {"BaseType", "IntType", "BooleanType", "FloatType", "StringType"} -> Ok(v)
      [] st \in {"DecimalType", "DateType", "DateTimeType"} -> Ok(Leaf("str", v.s))
      [] OTHER -> Fail("AttributeError")

-----------------------------------------------------------------------------
(* Handler instances: a record [hcls, type_def].  Operations that resolve  *)
(* a handler thread the tables S through, since claim_type may store.      *)

\* a frame count standing for sys.getrecursionlimit()
RecursionLimit == 6

SOk(S, v) == [val |-> v] @@ Raise(S, "")
SFail(S, e) == [val |-> NoneValue] @@ Raise(S, e)

\* type(self.type_def)
TypeDefClass(td) == IF td \in Instances THEN TypeOf(td) ELSE "ModelType"

\* SchematicsTypeHandler.is_any; BasicTypeHandler.is_any is False
is_any(h) == h.hcls = "SchematicsTypeHandler" /\ h.type_def = Inst("BaseType")

\* self.type_def(value) in BasicTypeHandler.validate: the builtin casts
BasicCast(c, v) ==
    CASE c = "str"   -> IF IsLeaf(v) THEN Ok(Leaf("str", v.s)) ELSE Fail("PacketValidationError")
      [] c = "int"   -> IF v.t = "bool" THEN Ok(Leaf("int", IF v.s = "True" THEN "1" ELSE "0"))
                        ELSE IF v.t \in {"str", "MyStr"} /\ v.s \in Digits THEN Ok(Leaf("int", v.s))
                        ELSE Fail("PacketValidationError")
      [] c = "float" -> IF v.t = "int" THEN Ok(Leaf("float", v.s \o ".0"))
                        ELSE Fail("PacketValidationError")
      [] OTHER       -> Fail("PacketValidationError")

\* handler.validate(value)
validate(h, v) ==
    IF h.hcls = "SchematicsTypeHandler"
    THEN LET r == LibToNative(TypeDefClass(h.type_def), v)
         IN  IF r.exc = "" THEN r ELSE Fail("PacketValidationError")
    ELSE IF IsLeaf(v) /\ isclass(v.t) /\ issubclass(v.t, h.type_def) THEN Ok(v)
    ELSE BasicCast(h.type_def, v)

\* handler.to_native(data)
to_native(h, v) ==
    IF h.hcls = "SchematicsTypeHandler"
    THEN LibToNative(TypeDefClass(h.type_def), v)
    ELSE Ok(v)

RECURSIVE serialize(_, _, _, _)
RECURSIVE serialize_each(_, _, _, _)

\* handler.to_primitive(data), called from a frame at the given depth
to_primitive(H, S, h, v, depth) ==
    IF h.hcls = "SchematicsTypeHandler"
    THEN IF is_any(h) THEN serialize(H, S, v, depth + 1)
         ELSE Bind(LibToPrimitive(TypeDefClass(h.type_def), v), LAMBDA r :
                  IF r.exc = "" THEN SOk(S, r.val) ELSE SFail(S, r.exc))
    ELSE SOk(S, v)

\* serialize(x) for each x of vs, left to right, until one raises
serialize_each(H, S, vs, depth) ==
    IF vs = <<>> THEN [vals |-> <<>>] @@ Raise(S, "")
    ELSE Bind(serialize(H, S, Head(vs), depth), LAMBDA r :
            IF r.exc # "" THEN [vals |-> <<>>] @@ Raise(r, r.exc)
            ELSE Bind(serialize_each(H, r, Tail(vs), depth), LAMBDA rest :
                    [vals |-> <<r.val>> \o rest.vals] @@ Raise(rest, rest.exc)))

\* serialize(obj), types.py:386-403
serialize(H, S, obj, depth) ==
    IF depth > RecursionLimit THEN SFail(S, "RuntimeError")
    ELSE IF IsMapping(obj)
    THEN Bind(serialize_each(H, S, [i \in 1..Len(obj.kids) |-> obj.kids[i].kids[1]],
                             depth + 1), LAMBDA r :
            IF r.exc # "" THEN SFail(r, r.exc)
            ELSE SOk(r, DictOf([i \in 1..Len(obj.kids) |->
                                   Item(obj.kids[i].s, r.vals[i])])))
    ELSE IF IsListOrTuple(obj)
    THEN Bind(serialize_each(H, S, obj.kids, depth + 1), LAMBDA r :
            IF r.exc # "" THEN SFail(r, r.exc) ELSE SOk(r, ListOf(r.vals)))
    ELSE LET obj_type == obj.t IN
         Bind(get_type_handler(H, S, obj_type), LAMBDA g :
            IF g.exc # "" THEN SFail(g, g.exc)
            ELSE Bind(to_primitive(H, g, [hcls |-> g.hcls, type_def |-> g.type_def],
                                   obj, depth), LAMBDA p :
                    IF p.exc # "" THEN p
                    ELSE IF obj_type \in TYPE_MAP_KEYS THEN p
                    ELSE SOk(p, Envelope(importable_class_name(obj_type), p.val))))

RECURSIVE deserialize(_, _, _)
RECURSIVE deserialize_each(_, _, _)

deserialize_each(H, S, vs) ==
    IF vs = <<>> THEN [vals |-> <<>>] @@ Raise(S, "")
    ELSE Bind(deserialize(H, S, Head(vs)), LAMBDA r :
            IF r.exc # "" THEN [vals |-> <<>>] @@ Raise(r, r.exc)
            ELSE Bind(deserialize_each(H, r, Tail(vs)), LAMBDA rest :
                    [vals |-> <<r.val>> \o rest.vals] @@ Raise(rest, rest.exc)))

\* deserialize(data), types.py:406-422
deserialize(H, S, data) ==
    IF IsMapping(data)
    THEN IF HasKey(data, "__type__")
         THEN LET typ == locate_class(Get(data, "__type__").s) IN
              Bind(get_type_handler(H, S, typ), LAMBDA g :
                 IF g.exc # "" THEN SFail(g, g.exc)
                 ELSE IF ~HasKey(data, "value") THEN SFail(g, "KeyError")
                 ELSE Bind(to_native([hcls |-> g.hcls, type_def |-> g.type_def],
                                     Get(data, "value")), LAMBDA n :
                         IF n.exc = "" THEN SOk(g, n.val) ELSE SFail(g, n.exc)))
         ELSE Bind(deserialize_each(H, S, [i \in 1..Len(data.kids) |->
                                             data.kids[i].kids[1]]), LAMBDA r :
                 IF r.exc # "" THEN SFail(r, r.exc)
                 ELSE SOk(r, DictOf([i \in 1..Len(data.kids) |->
                                        Item(data.kids[i].s, r.vals[i])])))
    ELSE IF IsListOrTuple(data)
    THEN Bind(deserialize_each(H, S, data.kids), LAMBDA r :
            IF r.exc # "" THEN SFail(r, r.exc) ELSE SOk(r, ListOf(r.vals)))
    ELSE SOk(S, data)

-----------------------------------------------------------------------------
(* The registry as a state machine: the import of types.py, then calls.    *)

Tables == [tl |-> _type_lookup, sl |-> _subtype_lookup, prim |-> primitive_type]
RefTables == [tl |-> ref_type_lookup, sl |-> ref_subtype_lookup,
              prim |-> ref_primitive_type]

NoCall == [op |-> "", arg |-> "", stype |-> "", primitive |-> None,
           allow |-> FALSE, overwrite |-> FALSE,
           exc |-> "", val |-> None, hcls |-> None]

SetTables(S) ==
    /\ _type_lookup' = S.tl
    /\ _subtype_lookup' = S.sl
    /\ primitive_type' = S.prim

SetRefTables(S) ==
    /\ ref_type_lookup' = S.tl
    /\ ref_subtype_lookup' = S.sl
    /\ ref_primitive_type' = S.prim

\* inputs the calls are drawn from
Descriptors == {"int", "MyStr", "A", "NoneType", "int()",
                "IntType", "IntType()", "MyModel", "MyModel()"}
RegTypes == {"str", "MyStr", "A", "int()"}
RegSchematicsTypes == {"IntType", "BaseType", "ListType", "A", "IntType()"}
RegPrimitives == {None, "int"}
ClaimArgs == {"str", "MyStr", "A", "int", "int()"}

TypesInit ==
    /\ phase = "start"
    /\ _type_handlers = <<>>
    /\ _type_lookup = EmptyTables.tl
    /\ _subtype_lookup = EmptyTables.sl
    /\ primitive_type = EmptyTables.prim
    /\ ref_type_lookup = EmptyTables.tl
    /\ ref_subtype_lookup = EmptyTables.sl
    /\ ref_primitive_type = EmptyTables.prim
    /\ explicit = {}
    /\ ret = NoCall
    /\ ref_ret = NoCall
    /\ sdata = NoneValue
    /\ sret = Ok(NoneValue)
    /\ ncalls = 0

\* types.py:474
ImportBuiltinTypes ==
    /\ phase = "start"
    /\ phase' = "builtins"
    /\ SetTables(_register_builtin_types(Tables))
    /\ SetRefTables(_register_builtin_types(RefTables))
    /\ explicit' = {BuiltinRegistrations[i][1] : i \in 1..Len(BuiltinRegistrations)}
    /\ UNCHANGED <<_type_handlers, ret, ref_ret, sdata, sret, ncalls>>
    /\ UNCHANGED cvars

\* types.py:475
ImportRegisterHandler ==
    /\ phase = "builtins"
    /\ phase' = "ready"
    /\ _type_handlers' = register_handler(_type_handlers, "SchematicsTypeHandler")
    /\ UNCHANGED <<_type_lookup, _subtype_lookup, primitive_type, ref_type_lookup,
                   ref_subtype_lookup, ref_primitive_type, explicit, ret, ref_ret,
                   sdata, sret, ncalls>>
    /\ UNCHANGED cvars

RegisterHandler(cls) ==
    /\ phase = "ready"
    /\ ncalls < MaxCalls
    /\ ncalls' = ncalls + 1
    /\ _type_handlers' = register_handler(_type_handlers, cls)
    /\ ret' = [NoCall EXCEPT !.op = "register_handler", !.arg = cls]
    /\ ref_ret' = ret'
    /\ UNCHANGED <<phase, _type_lookup, _subtype_lookup, primitive_type,
                   ref_type_lookup, ref_subtype_lookup, ref_primitive_type,
                   explicit, sdata, sret>>
    /\ UNCHANGED cvars

\* get_type_handler is defined from line 78 on, before the list is filled
GetTypeHandler(d) ==
    /\ ncalls < MaxCalls
    /\ ncalls' = ncalls + 1
    /\ LET r == get_type_handler(_type_handlers, Tables, d)
       IN  /\ SetTables(r)
           /\ ret' = [NoCall EXCEPT !.op = "get_type_handler", !.arg = d,
                                    !.exc = r.exc, !.val = r.type_def,
                                    !.hcls = r.hcls]
    /\ ref_ret' = ret'
    /\ UNCHANGED <<phase, _type_handlers, ref_type_lookup, ref_subtype_lookup,
                   ref_primitive_type, explicit, sdata, sret>>
    /\ UNCHANGED cvars

RegisterType(type, schematics_type, primitive, allow_subclasses, overwrite) ==
    /\ phase = "ready"
    /\ ncalls < MaxCalls
    /\ ncalls' = ncalls + 1
    /\ LET call == [NoCall EXCEPT !.op = "register_type", !.arg = type,
                                  !.stype = schematics_type,
                                  !.primitive = primitive,
                                  !.allow = allow_subclasses,
                                  !.overwrite = overwrite]
           r  == register_type(Tables, type, schematics_type, primitive,
                               allow_subclasses, overwrite)
           rr == register_type(RefTables, type, schematics_type, primitive,
                               allow_subclasses, overwrite)
       IN  /\ SetTables(r)
           /\ SetRefTables(rr)
           /\ ret' = [call EXCEPT !.exc = r.exc]
           /\ ref_ret' = [call EXCEPT !.exc = rr.exc]
           /\ explicit' = IF r.exc = "" THEN explicit \cup {type} ELSE explicit
    /\ UNCHANGED <<phase, _type_handlers, sdata, sret>>
    /\ UNCHANGED cvars

ClaimType(typ) ==
    /\ phase = "ready"
    /\ ncalls < MaxCalls
    /\ ncalls' = ncalls + 1
    /\ LET call == [NoCall EXCEPT !.op = "claim_type", !.arg = typ]
           r  == claim_type(Tables, typ)
           rr == claim_type_nostore(RefTables, typ)
       IN  /\ SetTables(r)
           /\ SetRefTables(rr)
           /\ ret' = [call EXCEPT !.exc = r.exc, !.val = r.val]
           /\ ref_ret' = [call EXCEPT !.exc = rr.exc, !.val = rr.val]
    /\ UNCHANGED <<phase, _type_handlers, explicit, sdata, sret>>
    /\ UNCHANGED cvars

\* values handed to serialize, deserialize and the handlers' conversions
LeafValues ==
    {Leaf("int", "1"), Leaf("str", "1"), Leaf("str", "a"), Leaf("bool", "True"),
     Leaf("Decimal", "1.5"), Leaf("date", "2020-01-01"), Leaf("MyStr", "a"),
     Leaf("A", "a"), NoneValue}
Values ==
    LeafValues \cup
    {ListOf(<<Leaf("int", "1"), Leaf("Decimal", "1.5")>>),
     TupleOf(<<Leaf("int", "1")>>),
     DictOf(<<Item("k", Leaf("date", "2020-01-01"))>>)}
Envelopes ==
    {Envelope("Decimal", Leaf("str", "1.5")), Envelope("date", Leaf("str", "2020-01-01")),
     Envelope("MyStr", Leaf("MyStr", "a")), Envelope("int", Leaf("str", "1")),
     Envelope("A", Leaf("str", "a"))}
\* the types _register_builtin_types registers
BuiltinTypes == {BuiltinRegistrations[i][1] : i \in 1..Len(BuiltinRegistrations)}

Serialize(v) ==
    /\ phase = "ready"
    /\ ncalls < MaxCalls
    /\ ncalls' = ncalls + 1
    /\ LET r == serialize(_type_handlers, Tables, v, 0)
       IN  /\ SetTables(r)
           /\ sret' = [exc |-> r.exc, val |-> r.val]
    /\ sdata' = v
    /\ ret' = [NoCall EXCEPT !.op = "serialize"]
    /\ ref_ret' = ret'
    /\ UNCHANGED <<phase, _type_handlers, ref_type_lookup, ref_subtype_lookup,
                   ref_primitive_type, explicit>>
    /\ UNCHANGED cvars

Deserialize(v) ==
    /\ phase = "ready"
    /\ ncalls < MaxCalls
    /\ ncalls' = ncalls + 1
    /\ LET r == deserialize(_type_handlers, Tables, v)
       IN  /\ SetTables(r)
           /\ sret' = [exc |-> r.exc, val |-> r.val]
    /\ sdata' = v
    /\ ret' = [NoCall EXCEPT !.op = "deserialize"]
    /\ ref_ret' = ret'
    /\ UNCHANGED <<phase, _type_handlers, ref_type_lookup, ref_subtype_lookup,
                   ref_primitive_type, explicit>>
    /\ UNCHANGED cvars

\* h = get_type_handler(d); h.validate(v); h.to_native(h.to_primitive(v)).
\* ret.exc tells whether h was found and accepted v, sret is the round trip.
RoundTrip(d, v) ==
    /\ phase = "ready"
    /\ ncalls < MaxCalls
    /\ ncalls' = ncalls + 1
    /\ LET g  == get_type_handler(_type_handlers, Tables, d)
           h  == [hcls |-> g.hcls, type_def |-> g.type_def]
           ok == validate(h, v)
           pr == to_primitive(_type_handlers, g, h, v, 0)
           call == [NoCall EXCEPT !.op = "round_trip", !.arg = d]
       IN  IF g.exc # ""
           THEN SetTables(g) /\ ret' = [call EXCEPT !.exc = g.exc] /\ sret' = Fail(g.exc)
           ELSE IF ok.exc # ""
           THEN SetTables(g) /\ ret' = [call EXCEPT !.exc = ok.exc] /\ sret' = Fail(ok.exc)
           ELSE /\ SetTables(pr)
                /\ ret' = [call EXCEPT !.hcls = g.hcls, !.val = g.type_def]
                /\ sret' = IF pr.exc # "" THEN Fail(pr.exc) ELSE to_native(h, pr.val)
    /\ sdata' = v
    /\ ref_ret' = ret'
    /\ UNCHANGED <<phase, _type_handlers, ref_type_lookup, ref_subtype_lookup,
                   ref_primitive_type, explicit>>
    /\ UNCHANGED cvars

\* serialization and the handlers' conversions
SerialNext ==
    \/ ImportBuiltinTypes
    \/ ImportRegisterHandler
    \/ \E cls \in {"BasicTypeHandler"} : RegisterHandler(cls)
    \/ \E v \in Values : Serialize(v)
    \/ \E v \in Values \cup Envelopes : Deserialize(v)
    \/ \E d \in BuiltinTypes, v \in Values : RoundTrip(d, v)

\* the registry with few registrations: resolution of a handler
RegistryNext ==
    \/ ImportBuiltinTypes
    \/ ImportRegisterHandler
    \/ \E cls \in HandlerClasses : RegisterHandler(cls)
    \/ \E d \in Descriptors : GetTypeHandler(d)
    \/ \E t \in {"A", "MyStr", "MyModel"}, st \in {"IntType", "A"}, a \in BOOLEAN :
          RegisterType(t, st, None, a, FALSE)

\* the lookup tables: register_type and claim_type
LookupNext ==
    \/ ImportBuiltinTypes
    \/ ImportRegisterHandler
    \/ \E t \in RegTypes, st \in RegSchematicsTypes, p \in RegPrimitives,
          a \in BOOLEAN, o \in BOOLEAN : RegisterType(t, st, p, a, o)
    \/ \E typ \in ClaimArgs : ClaimType(typ)

ComponentsIdle ==
    /\ comp = "" /\ pc = "" /\ stream = <<>> /\ pos = <<>> /\ owned = {}
    /\ loc = <<>> /\ outq = <<>> /\ nsent = <<>> /\ ndropped = <<>>

Init == TypesInit /\ ComponentsIdle

Spec == Init /\ [][RegistryNext]_vars

SpecLookup == Init /\ [][LookupNext]_vars

SpecSerial == Init /\ [][SerialNext]_vars

-----------------------------------------------------------------------------
(* Claims about the registry *)

\* handler class cls claims descriptor d, through claim_type_def or claim_type
Claims(cls, S, d) ==
    claim_type_def(cls, d) \/ handler_claim_type(cls, S, d).val # None

Claimers(H, S, d) == {i \in 1..Len(H) : Claims(H[i], S, d)}

\* the head of the list is the class registered last
MostRecentClaimer(H, S, d) ==
    H[CHOOSE i \in Claimers(H, S, d) : \A j \in Claimers(H, S, d) : i <= j]

\* C1: after any sequence of register_handler calls, get_type_handler(d)
\* returns an instance of the most recently registered handler class that
\* claims d; an earlier class is used only when every later one declines d.
C1_ReturnsMostRecentClaimer ==
    [][(/\ ncalls' = ncalls + 1
        /\ ret'.op = "get_type_handler"
        /\ Claimers(_type_handlers, Tables, ret'.arg) # {})
          => /\ ret'.exc = ""
             /\ ret'.hcls = MostRecentClaimer(_type_handlers, Tables, ret'.arg)]_vars

\* C4: when no registered handler class claims d (the list may be empty),
\* get_type_handler(d) fails with TypeHandlerError and leaves the handler
\* list and the lookup tables as they were.
C4_UnclaimedFailsAndChangesNothing ==
    [][(/\ ncalls' = ncalls + 1
        /\ ret'.op = "get_type_handler"
        /\ Claimers(_type_handlers, Tables, ret'.arg) = {})
          => /\ ret'.exc = "TypeHandlerError"
             /\ ret'.hcls = None
             /\ UNCHANGED <<_type_handlers, _type_lookup, _subtype_lookup,
                            primitive_type>>]_vars

\* C4 witness: a failed resolution against a non-empty handler list
C4_Witness ==
    /\ ret.op = "get_type_handler"
    /\ ret.exc = "TypeHandlerError"
    /\ ret.arg = "A"
    /\ Len(_type_handlers) >= 2

\* C11: the "unsupported type" TypeError of SchematicsTypeHandler.__init__
\* never happens on the get_type_handler path: when SchematicsTypeHandler is
\* the class that claims d, through claim_type_def (a schematics type or
\* model, instance or class) or through a result of claim_type, the
\* construction succeeds and get_type_handler returns the handler.
C11_UnsupportedTypeNeverHappens ==
    [][(/\ ncalls' = ncalls + 1
        /\ ret'.op = "get_type_handler"
        /\ Claimers(_type_handlers, Tables, ret'.arg) # {}
        /\ MostRecentClaimer(_type_handlers, Tables, ret'.arg)
               = "SchematicsTypeHandler")
          => /\ ret'.exc # "TypeError"
             /\ ret'.hcls = "SchematicsTypeHandler"
             /\ ret'.val # None]_vars

-----------------------------------------------------------------------------
(* Claims about the lookup tables *)

\* the (type, schematics_type) pairs registered with allow_subclasses=True
\* whose type is an ancestor of typ
RegisteredAncestors(sl, typ) ==
    {e \in UNION {Range(sl[d]) : d \in Depths} : issubclass(typ, e[1])}

DeepestAncestors(sl, typ) ==
    {e \in RegisteredAncestors(sl, typ) :
        \A f \in RegisteredAncestors(sl, typ) : Depth(f[1]) <= Depth(e[1])}

\* C8: for a class T with no exact registration, claim_type(T) returns the
\* schematics type registered with allow_subclasses=True for the ancestor of
\* T of greatest MRO length; an exact registration of T takes precedence
\* over any ancestor; the result is None when T has neither.
C8_DeepestAncestorFirst ==
    [][(/\ ncalls' = ncalls + 1
        /\ ret'.op = "claim_type"
        /\ isclass(ret'.arg))
          => LET T == ret'.arg IN
             /\ T \in explicit => ret'.val = _type_lookup[T]
             /\ (T \notin explicit /\ RegisteredAncestors(_subtype_lookup, T) = {})
                    => ret'.val = None
             /\ (T \notin explicit /\ RegisteredAncestors(_subtype_lookup, T) # {})
                    => \E e \in DeepestAncestors(_subtype_lookup, T) :
                          ret'.val = e[2]]_vars

\* C9: register_type accepts a registration only when schematics_type is a
\* class that subclasses BaseType and is not compound, and type is a class;
\* every other call fails with ValueError and adds no entry to the tables.
C9_RegisterTypeValidates ==
    [][(ncalls' = ncalls + 1 /\ ret'.op = "register_type")
          => LET valid == /\ isclass(ret'.stype)
                          /\ issubclass(ret'.stype, "BaseType")
                          /\ ~issubclass(ret'.stype, "CompoundType")
                          /\ isclass(ret'.arg)
             IN  /\ ret'.exc = "" => valid
                 /\ ~valid => /\ ret'.exc = "ValueError"
                              /\ UNCHANGED <<_type_lookup, _subtype_lookup>>]_vars

\* C10: the entry claim_type stores is only a speed-up: every claim_type and
\* register_type call behaves as it would if claim_type stored nothing and
\* resolved from the explicit register_type calls alone.
C10_StoredEntryIsOnlyASpeedUp ==
    ret.op \in {"claim_type", "register_type"} => ret = ref_ret

-----------------------------------------------------------------------------
(* Claims about the conversions *)

\* C2: for every registered handler h and every value v that h.validate
\* accepts, h.to_native(h.to_primitive(v)) equals v, the any-type handler
\* (NoneType registered to BaseType) included.
C2_TypeRoundTrip ==
    (ret.op = "round_trip" /\ ret.exc = "")
        => (sret.exc = "" /\ sret.val = sdata)

\* what C3 says serialize(v) is for a leaf v whose type resolves to handler h
SerializedLeaf(H, S, h, v) ==
    LET p == to_primitive(H, S, h, v, 0) IN
    IF p.exc # "" THEN Fail(p.exc)
    ELSE IF v.t \in TYPE_MAP_KEYS THEN Ok(p.val)
    ELSE Ok(Envelope(importable_class_name(v.t), p.val))

IsEnvelope(v) == IsMapping(v) /\ HasKey(v, "__type__") /\ HasKey(v, "value")

\* C3: for a leaf whose concrete type has a registered handler, serialize
\* returns the handler's primitive when the type is a key of TYPE_MAP and
\* otherwise an envelope of the type's name and the primitive; deserialize
\* of an envelope returns to_native of the envelope's value by the handler
\* of the named type, and returns every other leaf unchanged.
C3_LeafSerialization ==
    LET H == _type_handlers
        g(t) == get_type_handler(H, Tables, t)
        h(t) == [hcls |-> g(t).hcls, type_def |-> g(t).type_def]
    IN  /\ (ret.op = "serialize" /\ IsLeaf(sdata) /\ g(sdata.t).exc = "")
              => /\ sret.exc = ""
                 /\ sret = SerializedLeaf(H, Tables, h(sdata.t), sdata)
        /\ (ret.op = "deserialize" /\ IsEnvelope(sdata)
                /\ g(locate_class(Get(sdata, "__type__").s)).exc = "")
              => sret = to_native(h(locate_class(Get(sdata, "__type__").s)),
                                  Get(sdata, "value"))
        /\ (ret.op = "deserialize" /\ IsLeaf(sdata))
              => sret = Ok(sdata)

-----------------------------------------------------------------------------
(* The text components.  A string is a sequence of one-character strings.  *)
(* The ports and packets of rill.engine.component are not among the        *)
(* sources; they follow the engine's specification: receive and iteration  *)
(* hand the packet to the component, which owns it until it drops or sends *)
(* it; receive_once returns the content of the first packet, or the        *)
(* default when there is none, and the packet is gone.                     *)

\* longest stream on IN
MaxIn == 3

InPorts == {"IN", "PRE", "POST", "FIND", "REPL", "MEASURE", "TEST"}
OutPorts == {"OUT", "DUPLICATE", "ACC", "REJ"}

Engine == [pos |-> pos, owned |-> owned, outq |-> outq,
           nsent |-> nsent, ndropped |-> ndropped]

SetEngine(E) ==
    /\ pos' = E.pos
    /\ owned' = E.owned
    /\ outq' = E.outq
    /\ nsent' = E.nsent
    /\ ndropped' = E.ndropped

HasNext(E, port) == E.pos[port] < Len(stream[port])
NextId(E, port) == <<port, E.pos[port] + 1>>
get_content(id) == stream[id[1]][id[2]]

\* InputPort.receive(), and one step of `for p in PORT`: the next packet
\* becomes the component's
Receive(E, port) ==
    IF HasNext(E, port)
    THEN [E EXCEPT !.pos[port] = @ + 1, !.owned = @ \cup {NextId(E, port)}]
    ELSE E

\* InputPort.receive_once(default): the content returned ...
ReceiveOnceContent(E, port, default) ==
    IF HasNext(E, port) THEN stream[port][E.pos[port] + 1] ELSE default

\* ... and the packet consumed
ReceiveOnce(E, port) ==
    IF HasNext(E, port)
    THEN [E EXCEPT !.pos[port] = @ + 1, !.ndropped[NextId(E, port)] = @ + 1]
    ELSE E

\* packet.drop()
Drop(E, id) == [E EXCEPT !.owned = @ \ {id}, !.ndropped[id] = @ + 1]

\* OutputPort.send(packet)
SendPacket(E, port, id) ==
    [E EXCEPT !.owned = @ \ {id}, !.nsent[id] = @ + 1,
              !.outq[port] = Append(@, get_content(id))]

\* OutputPort.send(content): a new packet is made of the content and sent
SendContent(E, port, content) == [E EXCEPT !.outq[port] = Append(@, content)]

RECURSIVE SendAll(_, _, _)
SendAll(E, port, contents) ==
    IF contents = <<>> THEN E
    ELSE SendAll(SendContent(E, port, Head(contents)), port, Tail(contents))

\* str.strip()
RECURSIVE lstrip(_)
lstrip(str) == IF str # <<>> /\ Head(str) = " " THEN lstrip(Tail(str)) ELSE str
RECURSIVE rstrip(_)
rstrip(str) ==
    IF str # <<>> /\ str[Len(str)] = " " THEN rstrip(SubSeq(str, 1, Len(str) - 1))
    ELSE str
strip(str) == rstrip(lstrip(str))

\* str.split(" ")
RECURSIVE split(_)
split(str) ==
    IF \A i \in 1..Len(str) : str[i] # " " THEN <<str>>
    ELSE LET i == CHOOSE k \in 1..Len(str) :
                      str[k] = " " /\ \A j \in 1..(k - 1) : str[j] # " "
         IN  <<SubSeq(str, 1, i - 1)>> \o split(SubSeq(str, i + 1, Len(str)))

\* str.startswith(prefix)
startswith(str, prefix) ==
    Len(prefix) <= Len(str) /\ SubSeq(str, 1, Len(prefix)) = prefix

NoLocals == [prefix |-> <<>>, post |-> <<>>, previous |-> <<>>, find |-> <<>>,
             repl |-> <<>>, measure |-> <<>>, line |-> <<>>, test |-> <<>>]

\* text.py:18, text = prefix + p.get_content(), written the other way round
PrefixTextSwapped(prefix, content) == content \o prefix

\* text.py:18
PrefixText(prefix, content) == prefix \o content

\* text.py:13-20
Prefix ==
    /\ comp = "Prefix"
    /\ \/ /\ pc = "start"
          /\ loc' = [loc EXCEPT !.prefix = ReceiveOnceContent(Engine, "PRE", <<>>)]
          /\ SetEngine(ReceiveOnce(Engine, "PRE"))
          /\ pc' = "loop"
       \/ /\ pc = "loop" /\ HasNext(Engine, "IN")
          /\ LET p    == NextId(Engine, "IN")
                 text == PrefixText(loc.prefix, get_content(p))
             IN  SetEngine(SendContent(Drop(Receive(Engine, "IN"), p), "OUT", text))
          /\ UNCHANGED <<pc, loc>>
       \/ /\ pc = "loop" /\ ~HasNext(Engine, "IN")
          /\ pc' = "returned"
          /\ UNCHANGED <<pos, owned, outq, nsent, ndropped, loc>>
    /\ UNCHANGED <<comp, stream>>
    /\ UNCHANGED tvars

\* text.py:28-37
Affix ==
    /\ comp = "Affix"
    /\ \/ /\ pc = "start"
          /\ LET E1 == ReceiveOnce(Engine, "PRE") IN
             /\ loc' = [loc EXCEPT
                           !.prefix = ReceiveOnceContent(Engine, "PRE", <<>>),
                           !.post = ReceiveOnceContent(E1, "POST", <<>>)]
             /\ SetEngine(ReceiveOnce(E1, "POST"))
          /\ pc' = "loop"
       \/ /\ pc = "loop" /\ HasNext(Engine, "IN")
          /\ LET pin  == NextId(Engine, "IN")
                 sout == loc.prefix \o get_content(pin) \o loc.post
             IN  SetEngine(SendContent(Drop(Receive(Engine, "IN"), pin), "OUT", sout))
          /\ UNCHANGED <<pc, loc>>
       \/ /\ pc = "loop" /\ ~HasNext(Engine, "IN")
          /\ pc' = "returned"
          /\ UNCHANGED <<pos, owned, outq, nsent, ndropped, loc>>
    /\ UNCHANGED <<comp, stream>>
    /\ UNCHANGED tvars

\* text.py:69-78
DedupeSuccessive ==
    /\ comp = "DedupeSuccessive"
    /\ \/ /\ pc = "start"
          /\ loc' = [loc EXCEPT !.previous = <<>>]
          /\ pc' = "loop"
          /\ UNCHANGED <<pos, owned, outq, nsent, ndropped>>
       \/ /\ pc = "loop" /\ HasNext(Engine, "IN")
          /\ LET pin == NextId(Engine, "IN")
                 sin == get_content(pin)
                 E1  == Drop(Receive(Engine, "IN"), pin)
             IN  /\ SetEngine(IF loc.previous # sin
                              THEN SendContent(E1, "OUT", sin) ELSE E1)
                 /\ loc' = [loc EXCEPT !.previous = sin]
          /\ UNCHANGED pc
       \/ /\ pc = "loop" /\ ~HasNext(Engine, "IN")
          /\ pc' = "returned"
          /\ UNCHANGED <<pos, owned, outq, nsent, ndropped, loc>>
    /\ UNCHANGED <<comp, stream>>
    /\ UNCHANGED tvars

\* text.py:85-90
DuplicateString ==
    /\ comp = "DuplicateString"
    /\ \/ /\ pc = "start"
          /\ pc' = "loop"
          /\ UNCHANGED <<pos, owned, outq, nsent, ndropped, loc>>
       \/ /\ pc = "loop" /\ HasNext(Engine, "IN")
          /\ LET p == NextId(Engine, "IN")
                 str == get_content(p)
             IN  SetEngine(SendContent(SendPacket(Receive(Engine, "IN"), "OUT", p),
                                       "DUPLICATE", str))
          /\ UNCHANGED <<pc, loc>>
       \/ /\ pc = "loop" /\ ~HasNext(Engine, "IN")
          /\ pc' = "returned"
          /\ UNCHANGED <<pos, owned, outq, nsent, ndropped, loc>>
    /\ UNCHANGED <<comp, stream>>
    /\ UNCHANGED tvars

\* text.py:148-156
LineToWords ==
    /\ comp = "LineToWords"
    /\ \/ /\ pc = "start"
          /\ pc' = "loop"
          /\ UNCHANGED <<pos, owned, outq, nsent, ndropped, loc>>
       \/ /\ pc = "loop" /\ HasNext(Engine, "IN")
          /\ LET pin   == NextId(Engine, "IN")
                 words == split(get_content(pin))
             IN  SetEngine(SendAll(Drop(Receive(Engine, "IN"), pin), "OUT", words))
          /\ UNCHANGED <<pc, loc>>
       \/ /\ pc = "loop" /\ ~HasNext(Engine, "IN")
          /\ pc' = "returned"
          /\ UNCHANGED <<pos, owned, outq, nsent, ndropped, loc>>
    /\ UNCHANGED <<comp, stream>>
    /\ UNCHANGED tvars

\* text.py:162-168 (LowerCase) and 346-352 (StripPunct): the packet is
\* dropped, then str has no method tolower / replace_all
LowerCaseOrStripPunct ==
    /\ comp \in {"LowerCase", "StripPunct"}
    /\ \/ /\ pc = "start"
          /\ pc' = "loop"
          /\ UNCHANGED <<pos, owned, outq, nsent, ndropped, loc>>
       \/ /\ pc = "loop" /\ HasNext(Engine, "IN")
          /\ SetEngine(Drop(Receive(Engine, "IN"), NextId(Engine, "IN")))
          /\ pc' = "AttributeError"
          /\ UNCHANGED loc
       \/ /\ pc = "loop" /\ ~HasNext(Engine, "IN")
          /\ pc' = "returned"
          /\ UNCHANGED <<pos, owned, outq, nsent, ndropped, loc>>
    /\ UNCHANGED <<comp, stream>>
    /\ UNCHANGED tvars

\* text.py:330-340.  REPL.receive("") returns the packet itself, or None at
\* end of stream, so repl is never a str and text.replace(find, repl) raises
ReplaceString ==
    /\ comp = "ReplaceString"
    /\ \/ /\ pc = "start"
          /\ LET E1 == ReceiveOnce(Engine, "FIND") IN
             /\ loc' = [loc EXCEPT
                           !.find = ReceiveOnceContent(Engine, "FIND", <<>>),
                           !.repl = IF HasNext(E1, "REPL")
                                    THEN NextId(E1, "REPL") ELSE <<>>]
             /\ SetEngine(Receive(E1, "REPL"))
          /\ pc' = "loop"
       \/ /\ pc = "loop" /\ HasNext(Engine, "IN")
          /\ SetEngine(Receive(Engine, "IN"))
          /\ pc' = "TypeError"
          /\ UNCHANGED loc
       \/ /\ pc = "loop" /\ ~HasNext(Engine, "IN")
          /\ pc' = "returned"
          /\ UNCHANGED <<pos, owned, outq, nsent, ndropped, loc>>
    /\ UNCHANGED <<comp, stream>>
    /\ UNCHANGED tvars

\* text.py:370, the test that starts a new line
LineIsFull(line, w, measure) == Len(line) + 1 + Len(w) > measure

\* text.py:359-378
WordsToLine ==
    /\ comp = "WordsToLine"
    /\ \/ /\ pc = "start"
          /\ SetEngine(ReceiveOnce(Engine, "MEASURE"))
          /\ IF HasNext(Engine, "MEASURE")
             THEN /\ loc' = [loc EXCEPT
                                !.measure = <<ReceiveOnceContent(Engine, "MEASURE", 0)>>,
                                !.line = <<>>]
                  /\ pc' = "loop"
             ELSE /\ pc' = "returned"
                  /\ UNCHANGED loc
       \/ /\ pc = "loop" /\ HasNext(Engine, "IN")
          /\ LET pin == NextId(Engine, "IN")
                 w   == strip(get_content(pin))
                 E1  == Drop(Receive(Engine, "IN"), pin)
             IN  IF LineIsFull(loc.line, w, loc.measure[1])
                 THEN /\ SetEngine(SendContent(E1, "OUT", loc.line))
                      /\ loc' = [loc EXCEPT !.line = w]
                 ELSE /\ SetEngine(E1)
                      /\ loc' = [loc EXCEPT !.line =
                                    (IF @ # <<>> THEN @ \o <<" ">> ELSE @) \o w]
          /\ UNCHANGED pc
       \/ /\ pc = "loop" /\ ~HasNext(Engine, "IN")
          /\ SetEngine(IF loc.line # <<>>
                       THEN SendContent(Engine, "OUT", loc.line) ELSE Engine)
          /\ pc' = "returned"
          /\ UNCHANGED loc
    /\ UNCHANGED <<comp, stream>>
    /\ UNCHANGED tvars

\* text.py:395-404.  Without a TEST packet test_str is None and
\* content.startswith(None) raises
StartsWith ==
    /\ comp = "StartsWith"
    /\ \/ /\ pc = "start"
          /\ loc' = [loc EXCEPT !.test =
                        IF HasNext(Engine, "TEST")
                        THEN <<ReceiveOnceContent(Engine, "TEST", <<>>)>> ELSE <<>>]
          /\ SetEngine(ReceiveOnce(Engine, "TEST"))
          /\ pc' = "loop"
       \/ /\ pc = "loop" /\ HasNext(Engine, "IN")
          /\ LET p == NextId(Engine, "IN")
                 E1 == Receive(Engine, "IN")
             IN  IF loc.test = <<>>
                 THEN SetEngine(E1) /\ pc' = "TypeError"
                 ELSE /\ SetEngine(IF startswith(get_content(p), loc.test[1])
                                   THEN SendPacket(E1, "ACC", p)
                                   ELSE SendPacket(E1, "REJ", p))
                      /\ UNCHANGED pc
          /\ UNCHANGED loc
       \/ /\ pc = "loop" /\ ~HasNext(Engine, "IN")
          /\ pc' = "returned"
          /\ UNCHANGED <<pos, owned, outq, nsent, ndropped, loc>>
    /\ UNCHANGED <<comp, stream>>
    /\ UNCHANGED tvars

\* the runtime after the logic has returned: the owned-packet set must be
\* empty, else PacketLeakError
Terminate ==
    /\ pc = "returned"
    /\ pc' = IF owned = {} THEN "terminated" ELSE "PacketLeakError"
    /\ UNCHANGED <<comp, stream, pos, owned, loc, outq, nsent, ndropped>>
    /\ UNCHANGED tvars

\* the streams a run starts from
Seqs(S, n) == UNION {[1..k -> S] : k \in 0..n}
NoStream == [port \in InPorts |-> <<>>]
IIPs(S) == {<<>>} \cup {<<x>> : x \in S}

Streams(c) ==
    CASE c = "Prefix" ->
            {[NoStream EXCEPT !["IN"] = in, !["PRE"] = pre] :
                in \in Seqs({<<"a">>, <<"b">>, <<"c">>}, MaxIn),
                pre \in IIPs({<<"x", "-">>})}
      [] c = "Affix" ->
            {[NoStream EXCEPT !["IN"] = in, !["PRE"] = pre, !["POST"] = post] :
                in \in Seqs({<<"a">>, <<"b">>}, MaxIn),
                pre \in IIPs({<<"x", "-">>}), post \in IIPs({<<"!">>})}
      [] c \in {"DedupeSuccessive", "DuplicateString"} ->
            {[NoStream EXCEPT !["IN"] = in] : in \in Seqs({<<"a">>, <<"b">>}, MaxIn)}
      [] c = "LineToWords" ->
            {[NoStream EXCEPT !["IN"] = in] :
                in \in Seqs({<<"a", " ", "b">>, <<"a">>, <<>>}, MaxIn)}
      [] c \in {"LowerCase", "StripPunct"} ->
            {[NoStream EXCEPT !["IN"] = in] : in \in Seqs({<<"a">>}, MaxIn)}
      [] c = "ReplaceString" ->
            {[NoStream EXCEPT !["IN"] = in, !["FIND"] = find, !["REPL"] = repl] :
                in \in Seqs({<<"a">>}, MaxIn),
                find \in IIPs({<<"a">>}), repl \in IIPs({<<"b">>})}
      [] c = "WordsToLine" ->
            {[NoStream EXCEPT !["IN"] = in, !["MEASURE"] = m] :
                in \in Seqs({<<"a">>, <<"a", "b">>, <<" ", "a", "b", " ">>,
                             <<"a", "b", "c", "d">>}, MaxIn),
                m \in IIPs({3, 4})}
      [] c = "StartsWith" ->
            {[NoStream EXCEPT !["IN"] = in, !["TEST"] = test] :
                in \in Seqs({<<"a">>, <<"b", "a">>}, MaxIn),
                test \in IIPs({<<"a">>})}

Components == {"Prefix", "Affix", "DedupeSuccessive", "DuplicateString",
               "LineToWords", "LowerCase", "StripPunct", "ReplaceString",
               "WordsToLine", "StartsWith"}

PacketIds == {<<port, i>> : port \in InPorts, i \in 1..MaxIn}

TextInit ==
    /\ TypesInit
    /\ comp \in Components
    /\ stream \in Streams(comp)
    /\ pc = "start"
    /\ pos = [port \in InPorts |-> 0]
    /\ owned = {}
    /\ loc = NoLocals
    /\ outq = [port \in OutPorts |-> <<>>]
    /\ nsent = [id \in PacketIds |-> 0]
    /\ ndropped = [id \in PacketIds |-> 0]

TextNext ==
    \/ Prefix
    \/ Affix
    \/ DedupeSuccessive
    \/ DuplicateString
    \/ LineToWords
    \/ LowerCaseOrStripPunct
    \/ ReplaceString
    \/ WordsToLine
    \/ StartsWith
    \/ Terminate

SpecText == TextInit /\ [][TextNext]_vars

\* each component runs in a thread of its own: a step that can be taken is taken
FairSpecText == TextInit /\ [][TextNext]_vars /\ WF_vars(TextNext)

-----------------------------------------------------------------------------
(* Claims about the text components *)

\* the PRE value x: the empty string when PRE has nothing
PreValue == IF stream["PRE"] = <<>> THEN <<>> ELSE stream["PRE"][1]

\* C5: for every finite IN stream and every PRE value x (the empty string
\* when PRE has nothing), Prefix sends to OUT one packet per IN packet, in
\* order, with content x followed by the IN content, and its logic returns
\* once IN is at end of stream.
C5_PrefixOutput ==
    /\ []((comp = "Prefix" /\ pc # "start")
            => /\ outq["OUT"] = [i \in 1..pos["IN"] |-> PreValue \o stream["IN"][i]]
               /\ pc \in {"loop", "returned", "terminated"})
    /\ []((comp = "Prefix" /\ pc \in {"returned", "terminated"})
            => Len(outq["OUT"]) = Len(stream["IN"]))
    /\ ((comp = "Prefix") ~> (pc = "terminated"))

\* C5 witness: IN = a, b, c and PRE = "x-" give x-a, x-b, x-c
C5_Witness ==
    /\ comp = "Prefix"
    /\ stream["IN"] = << <<"a">>, <<"b">>, <<"c">> >>
    /\ stream["PRE"] = << <<"x", "-">> >>
    /\ pc = "terminated"
    /\ outq["OUT"] = << <<"x", "-", "a">>, <<"x", "-", "b">>, <<"x", "-", "c">> >>

\* the packets the logic obtained by receive or by iterating an input port
Obtained == {id \in PacketIds : id[1] \in {"IN", "REPL"} /\ id[2] <= pos[id[1]]}

\* C6: when the logic of a text component returns, every packet it
\* obtained has been dropped or sent exactly once, its owned-packet set is
\* empty and no PacketLeakError is raised.
C6_NoPacketLeak ==
    pc \in {"returned", "terminated", "PacketLeakError"}
        => /\ \A id \in Obtained : nsent[id] + ndropped[id] = 1
           /\ owned = {}
           /\ pc # "PacketLeakError"

\* C7: every line WordsToLine sends to OUT is no longer than MEASURE.
C7_LinesWithinMeasure ==
    (comp = "WordsToLine" /\ loc.measure # <<>>)
        => \A i \in 1..Len(outq["OUT"]) : Len(outq["OUT"][i]) <= loc.measure[1]

====
